---------------------------- MODULE Spec2Model ----------------------------
(***************************************************************************)
(* Model of nettoyage_mp3.py: the duplicate scan (find_duplicates run by   *)
(* scan_worker on its own thread) and the GUI main loop that starts scans, *)
(* consumes the message queue, and exports and moves the cached groups.    *)
(*                                                                         *)
(* The file system and mutagen are the environment: every call into them   *)
(* (os.walk, open/read, os.path.getsize, MutagenFile) returns an outcome   *)
(* drawn from a small set at the step that makes the call, or never        *)
(* returns.                                                                *)
(***************************************************************************)
EXTENDS Integers, Sequences, FiniteSets, TLC

\* ------------------------------------------------------------------ bounds
\* largest number of .mp3 files under the scanned root
MaxFiles == 4
\* largest number of .mp3 files under the root when the GUI loop is modelled
MaxGuiFiles == 2
\* largest number of scans started from the GUI
MaxScans == 2
\* largest number of .mp3 files under the root once failed moves have left
\* copies of files in it; a scan is started on up to MaxGuiFiles files
MaxTree == 3

\* ------------------------------------------------------------- environment
\* A path is named by a number, and the tree first holds the paths 1..n.
\* Path 1 is 1/b1.mp3, path 2 is 2/b2.mp3, path 3 is 2/b1.mp3, path 4 is
\* 1/b2.mp3, and a further path p < 100 is p/b1.mp3 or p/b2.mp3: a folder is
\* named by a number, in sorted order.  The hundreds of a path hold the
\* counters "_c" that moves have added to its base name, one decimal digit
\* each: path 101 is 1/b1_1.mp3 and path 1203 is 2/b1_1_2.mp3.
RECURSIVE Suffix(_)
Suffix(s) ==
    IF s = 0 THEN "" ELSE Suffix(s \div 10) \o "_" \o ToString(s % 10)
\* os.path.splitext(os.path.basename(p))[0]
Stem(p) == (IF p % 2 = 1 THEN "b1" ELSE "b2") \o Suffix(p \div 100)
\* os.path.dirname(p)
Dirname(p) ==
    LET q == p % 100 IN IF q = 3 THEN 2 ELSE IF q = 4 THEN 1 ELSE q
\* os.path.join(dest, os.path.basename(p)) for the folder dest of the tree
Join(dest, p) ==
    LET q == CHOOSE r \in 1..4 : Dirname(r) = dest /\ r % 2 = p % 2
    IN  q + 100 * (p \div 100)
\* f"{base}_{c}{ext}"
Numbered(dst_path, c) ==
    (dst_path % 100) + 100 * ((dst_path \div 100) * 10 + c)

Methods == {"hash", "name", "size"}

\* Python's None, and an optional value v as <<v>>
None == <<>>
Some(v) == <<v>>

\* outcome of file_hash(f): the open/read raises, or a digest is returned
HashOutcomes == {[raises |-> TRUE, val |-> ""],
                 [raises |-> FALSE, val |-> "h1"],
                 [raises |-> FALSE, val |-> "h2"]}
\* outcome of os.path.getsize(f): the stat raises, or a size is returned
SizeOutcomes == {[raises |-> TRUE, val |-> 0],
                 [raises |-> FALSE, val |-> 100],
                 [raises |-> FALSE, val |-> 101]}
\* a tag dictionary: a function from some tag names to lists of strings
EmptyDict == <<>>
TagDicts == {EmptyDict, [title |-> <<"t1">>]}
\* outcome of MutagenFile(path, easy=True): it raises, or yields the tags
\* (an object without tags is falsy and reads as the empty dictionary)
MutagenOutcomes == {[raises |-> TRUE, val |-> EmptyDict]} \cup
                   {[raises |-> FALSE, val |-> d] : d \in TagDicts}

\* the folders the user can put in the -FOLDER- input: none, a path that is
\* not a directory, and the music directory that holds the tree
Folders == {"", "notadir", "music"}
IsDir(folder) == folder = "music"
\* the folders the user can pick as the target of a move: 0 is a folder
\* outside the music directory, 1 is folder 1 of the tree
Dests == {0, 1}

\* ------------------------------------------------------------------ state
VARIABLES
    tree,           \* the .mp3 paths under the music directory
    \* one scan worker per started scan, numbered from 1
    wpc,            \* position of scan_worker: idle, enum, finger, raise, end, gone,
                    \* hung (in a call that never returns)
    wmethod,        \* the method argument of the scan
    files,          \* files: the enumerated list
    file_infos,     \* file_infos built so far
    processed,      \* processed counter
    queue,          \* the queue.Queue objects: 0 is the one made at line 148
    sent,           \* every message each worker has put, in order
    hashed,         \* the paths each worker has called file_hash on
    tagcalls,       \* the calls of read_tags that have returned, by each worker
                    \* and in order: line, path, result
    \* GUI main loop
    cpc,            \* position of the main loop: read, drain, starting (inside
                    \* the -START- handler, the thread started), closed, exited
    event,          \* the event window.read returned
    values,         \* the values window.read returned
    msg_q,          \* which queue object msg_q names
    nthreads,       \* number of threading.Thread objects created
    total_files,
    groups_cache,
    startDisabled,  \* disabled state of the -START- button
    stopDisabled,   \* disabled state of the -STOP- button
    preserve_map,   \* preserve_map: folder -> folder to preserve
    exported,       \* the paths of the rows the last handler wrote to the CSV
    movelog         \* what the last handler moved, group by group

wvars == <<wpc, wmethod, files, file_infos, processed, queue, sent,
           hashed, tagcalls>>
gvars == <<cpc, event, values, msg_q, nthreads, total_files, groups_cache,
           startDisabled, stopDisabled, preserve_map, exported, movelog>>
vars == <<tree, wpc, wmethod, files, file_infos, processed, queue, sent,
          hashed, tagcalls, cpc, event, values, msg_q, nthreads, total_files,
          groups_cache, startDisabled, stopDisabled, preserve_map, exported,
          movelog>>

Scans == 1..MaxScans

\* ------------------------------------------------------------ pure helpers
RECURSIVE Perms(_)
\* all orders in which os.walk can yield the paths of S
Perms(S) ==
    IF S = {} THEN {<<>>}
    ELSE UNION {{<<p>> \o t : t \in Perms(S \ {p})} : p \in S}

Range(s) == {s[k] : k \in 1..Len(s)}

\* dict.get(key): the value, or None when the key is missing
Get(d, k) == IF k \in DOMAIN d THEN d[k] ELSE None

\* read_tags: {} when MutagenFile raises or the object is falsy (no tags)
read_tags(o) == IF o.raises \/ o.val = EmptyDict THEN EmptyDict ELSE o.val

\* TitleOf that falls back on the empty string instead of the base name
TitleOfNoFallback(f, tags) ==
    LET t == Get(tags, "title")
    IN  IF t # None /\ t # <<>> THEN t[1] ELSE ""

\* (tags.get("title") or [splitext(basename(f))[0]])[0]
TitleOf(f, tags) ==
    LET t == Get(tags, "title")
    IN  IF t # None /\ t # <<>> THEN t[1] ELSE Stem(f)

\* info for one file under each method (lines 63-76); a field that can hold
\* None is kept as an optional value
HashInfo(f, o) == [path |-> f,
                   hash |-> IF o.raises THEN None ELSE Some(o.val)]
NameInfo(f, o) == [path |-> f, title |-> Some(TitleOf(f, read_tags(o)))]
SizeInfo(f, o) == [path |-> f,
                   size |-> IF o.raises THEN None ELSE Some(o.val)]

\* TotalCount with a floor of 1, as a guard against dividing by zero would
TotalCountNonZero(fs) == IF Len(fs) = 0 THEN 1 ELSE Len(fs)

\* total_files = len(files)
TotalCount(fs) == Len(fs)

\* the field of an info that each method compares
Field(method) ==
    CASE method = "hash" -> "hash"
      [] method = "name" -> "title"
      [] method = "size" -> "size"

\* the fingerprint key of an info: fi.get(field)
Key(method, fi) == Get(fi, Field(method))

\* Match reading the hash field under the name method: None on both sides
MatchWrongField(method, fi, fj) ==
    IF method = "hash" /\ Get(fi, "hash") # Get(fj, "hash") THEN FALSE
    ELSE IF method = "name" /\ Get(fi, "hash") # Get(fj, "hash") THEN FALSE
    ELSE IF method = "size" /\ Get(fi, "size") # Get(fj, "size") THEN FALSE
    ELSE TRUE

\* Match where a missing value on the left matches anything
MatchNoneWildcard(method, fi, fj) ==
    Key(method, fi) = None \/ Key(method, fi) = Key(method, fj)

\* the match test of lines 92-98
Match(method, fi, fj) ==
    IF method = "hash" /\ Get(fi, "hash") # Get(fj, "hash") THEN FALSE
    ELSE IF method = "name" /\ Get(fi, "title") # Get(fj, "title") THEN FALSE
    ELSE IF method = "size" /\ Get(fi, "size") # Get(fj, "size") THEN FALSE
    ELSE TRUE

RECURSIVE InnerLoopPrepend(_, _, _, _, _, _)
\* InnerLoop that puts each new member at the head of the group
InnerLoopPrepend(method, infos, i, j, group, used) ==
    IF j > Len(infos) THEN [group |-> group, used |-> used]
    ELSE IF infos[j].path \in used
         THEN InnerLoopPrepend(method, infos, i, j + 1, group, used)
    ELSE IF Match(method, infos[i], infos[j])
         THEN InnerLoopPrepend(method, infos, i, j + 1,
                               <<infos[j].path>> \o group,
                               used \cup {infos[j].path})
    ELSE InnerLoopPrepend(method, infos, i, j + 1, group, used)

RECURSIVE InnerLoop(_, _, _, _, _, _)
\* for j in range(i+1, len(file_infos)): lines 88-101
InnerLoop(method, infos, i, j, group, used) ==
    IF j > Len(infos) THEN [group |-> group, used |-> used]
    ELSE IF infos[j].path \in used
         THEN InnerLoop(method, infos, i, j + 1, group, used)
    ELSE IF Match(method, infos[i], infos[j])
         THEN InnerLoop(method, infos, i, j + 1,
                        Append(group, infos[j].path),
                        used \cup {infos[j].path})
    ELSE InnerLoop(method, infos, i, j + 1, group, used)

RECURSIVE OuterLoopKeepSingles(_, _, _, _, _)
\* OuterLoop without the test len(group) > 1
OuterLoopKeepSingles(method, infos, i, groups, used) ==
    IF i > Len(infos) THEN groups
    ELSE IF infos[i].path \in used
         THEN OuterLoopKeepSingles(method, infos, i + 1, groups, used)
    ELSE LET r == InnerLoop(method, infos, i, i + 1,
                            <<infos[i].path>>, used)
         IN  OuterLoopKeepSingles(method, infos, i + 1,
                                  Append(groups, r.group),
                                  r.used \cup Range(r.group))

RECURSIVE OuterLoop(_, _, _, _, _)
\* for i, fi in enumerate(file_infos): lines 84-104
OuterLoop(method, infos, i, groups, used) ==
    IF i > Len(infos) THEN groups
    ELSE IF infos[i].path \in used
         THEN OuterLoop(method, infos, i + 1, groups, used)
    ELSE LET r == InnerLoop(method, infos, i, i + 1,
                            <<infos[i].path>>, used)
         IN  IF Len(r.group) > 1
             THEN OuterLoop(method, infos, i + 1, Append(groups, r.group),
                            r.used \cup Range(r.group))
             ELSE OuterLoop(method, infos, i + 1, groups, r.used)

\* groups of lines 82-104
Grouping(method, infos) == OuterLoop(method, infos, 1, <<>>, {})

\* FinalGroups that leaves out the records of the paths without tags
FinalGroupsDropEmpty(groups, tg) ==
    [n \in 1..Len(groups) |->
        [files |-> groups[n],
         tags |-> SelectSeq(
             [k \in 1..Len(groups[n]) |-> read_tags(tg[groups[n][k]])],
             LAMBDA t : t # EmptyDict)]]

\* final_groups of lines 106-110; tg gives MutagenFile's outcome per path
FinalGroups(groups, tg) ==
    [n \in 1..Len(groups) |->
        [files |-> groups[n],
         tags |-> [k \in 1..Len(groups[n]) |-> read_tags(tg[groups[n][k]])]]]

Msg(t, v) == [typ |-> t, val |-> v]

\* preserve_map = {} of line 151
EmptyMap == [d \in {} |-> 0]
\* no Move has run in the handler that just returned
NoMove == [res |-> "none", groups |-> <<>>]

\* Put on a queue that holds one message: put blocks while it is full
PutBounded(w, m) ==
    /\ queue[w] = <<>>
    /\ queue' = [queue EXCEPT ![w] = Append(@, m)]
    /\ sent' = [sent EXCEPT ![w] = Append(@, m)]

\* q.put(m) by worker w: the queue is unbounded, put never blocks
Put(w, m) ==
    /\ queue' = [queue EXCEPT ![w] = Append(@, m)]
    /\ sent' = [sent EXCEPT ![w] = Append(@, m)]

\* ---------------------------------------------------------- worker actions
\* the thread of a worker is a daemon: it runs until the interpreter exits
Alive == cpc # "exited"

\* the calls a worker w makes are added to its history
Hashed(w, ps) == hashed' = [hashed EXCEPT ![w] = @ \cup ps]
TagCalled(w, cs) == tagcalls' = [tagcalls EXCEPT ![w] = @ \o cs]
TagCall(l, p, o) == [line |-> l, path |-> p, ret |-> read_tags(o)]

RECURSIVE Flatten(_)
\* the paths of the groups in the order final_groups goes through them
Flatten(groups) ==
    IF groups = <<>> THEN <<>> ELSE Head(groups) \o Flatten(Tail(groups))

\* the calls of read_tags at line 108, where tg gives MutagenFile's outcome
GroupCalls(paths, tg) ==
    [k \in 1..Len(paths) |-> TagCall(108, paths[k], tg[paths[k]])]

\* one outcome of MutagenFile for each result read_tags can return
TagReadOutcomes ==
    {CHOOSE o \in MutagenOutcomes : read_tags(o) = d :
        d \in {read_tags(o) : o \in MutagenOutcomes}}

\* line 17: os.walk, with onerror None, skips a folder it cannot list: what
\* it yields are the files of the folders of t that can be listed, all of t
\* when they all can, nothing when the root cannot
Listed(t) ==
    {{p \in t : Dirname(p) \in D} : D \in SUBSET {Dirname(p) : p \in t}}
\* the lists line 55 can build: every order of what os.walk yields
Enumerations(t) == UNION {Perms(S) : S \in Listed(t)}

\* WorkerEnumerate that takes the queue for falsy and puts no total
WorkerEnumerateNoTotal(w) ==
    /\ Alive
    /\ wpc[w] = "enum"
    /\ \E fs \in Enumerations(tree) : files' = [files EXCEPT ![w] = fs]
    /\ wpc' = [wpc EXCEPT ![w] = "finger"]
    /\ UNCHANGED <<tree, wmethod, file_infos, processed, queue, sent,
                   hashed, tagcalls>>
    /\ UNCHANGED gvars

\* lines 55-58: the list is realized, then ("total", n) is put
WorkerEnumerate(w) ==
    /\ Alive
    /\ wpc[w] = "enum"
    /\ \E fs \in Enumerations(tree) :
        /\ files' = [files EXCEPT ![w] = fs]
        /\ Put(w, Msg("total", TotalCount(fs)))
    /\ wpc' = [wpc EXCEPT ![w] = "finger"]
    /\ UNCHANGED <<tree, wmethod, file_infos, processed, hashed, tagcalls>>
    /\ UNCHANGED gvars

\* line 55 raises (nothing inside find_duplicates catches it): control
\* passes to the except clause of scan_worker before anything was put
WorkerEnumRaise(w) ==
    /\ Alive
    /\ wpc[w] = "enum"
    /\ wpc' = [wpc EXCEPT ![w] = "raise"]
    /\ UNCHANGED <<tree, wmethod, files, file_infos, processed, queue, sent,
                   hashed, tagcalls>>
    /\ UNCHANGED gvars

\* what the environment can answer to the call each method makes on a file
Outcomes(method) ==
    CASE method = "hash" -> HashOutcomes
      [] method = "name" -> MutagenOutcomes
      [] method = "size" -> SizeOutcomes

\* the info built for file f from the answer o (lines 63-76)
InfoOf(method, f, o) ==
    CASE method = "hash" -> HashInfo(f, o)
      [] method = "name" -> NameInfo(f, o)
      [] method = "size" -> SizeInfo(f, o)

\* the infos the environment can yield for file f under a method
Infos(method, f) == {InfoOf(method, f, o) : o \in Outcomes(method)}

\* the calls of one iteration: file_hash at line 66, read_tags at line 70
FingerprintCalls(w, f, o) ==
    /\ Hashed(w, IF wmethod[w] = "hash" THEN {f} ELSE {})
    /\ TagCalled(w, IF wmethod[w] = "name" THEN <<TagCall(70, f, o)>>
                    ELSE <<>>)

\* WorkerFingerprint that skips the rest of the iteration for a failed file
WorkerFingerprintSkip(w) ==
    /\ Alive
    /\ wpc[w] = "finger"
    /\ processed[w] < Len(files[w])
    /\ LET f == files[w][processed[w] + 1] IN
        \E o \in Outcomes(wmethod[w]) :
            /\ file_infos' = [file_infos EXCEPT
                                 ![w] = Append(@, InfoOf(wmethod[w], f, o))]
            /\ FingerprintCalls(w, f, o)
            /\ IF Key(wmethod[w], InfoOf(wmethod[w], f, o)) = None
               THEN UNCHANGED <<queue, sent>>
               ELSE Put(w, Msg("progress", processed[w] + 1))
    /\ processed' = [processed EXCEPT ![w] = @ + 1]
    /\ UNCHANGED <<tree, wpc, wmethod, files>>
    /\ UNCHANGED gvars

\* WorkerFingerprint without the try of lines 65-68 and 73-76: the failure
\* on a file leaves find_duplicates
WorkerFingerprintUncaught(w) ==
    /\ Alive
    /\ wpc[w] = "finger"
    /\ processed[w] < Len(files[w])
    /\ LET f == files[w][processed[w] + 1] IN
        \E o \in Outcomes(wmethod[w]) :
            /\ FingerprintCalls(w, f, o)
            /\ IF Key(wmethod[w], InfoOf(wmethod[w], f, o)) = None
               THEN /\ wpc' = [wpc EXCEPT ![w] = "raise"]
                    /\ UNCHANGED <<file_infos, processed, queue, sent>>
               ELSE /\ file_infos' = [file_infos EXCEPT
                                 ![w] = Append(@, InfoOf(wmethod[w], f, o))]
                    /\ processed' = [processed EXCEPT ![w] = @ + 1]
                    /\ Put(w, Msg("progress", processed[w] + 1))
                    /\ UNCHANGED wpc
    /\ UNCHANGED <<tree, wmethod, files>>
    /\ UNCHANGED gvars

\* one iteration of the loop of lines 62-80
WorkerFingerprint(w) ==
    /\ Alive
    /\ wpc[w] = "finger"
    /\ processed[w] < Len(files[w])
    /\ LET f == files[w][processed[w] + 1] IN
        \E o \in Outcomes(wmethod[w]) :
            /\ file_infos' = [file_infos EXCEPT
                                 ![w] = Append(@, InfoOf(wmethod[w], f, o))]
            /\ FingerprintCalls(w, f, o)
    /\ processed' = [processed EXCEPT ![w] = @ + 1]
    /\ Put(w, Msg("progress", processed[w] + 1))
    /\ UNCHANGED <<tree, wpc, wmethod, files>>
    /\ UNCHANGED gvars

\* WorkerGroup that reads the tags of every enumerated file
WorkerGroupTagsAll(w) ==
    /\ Alive
    /\ wpc[w] = "finger"
    /\ processed[w] = Len(files[w])
    /\ \E groups \in {Grouping(wmethod[w], file_infos[w])} :
         \E tg \in [Range(files[w]) -> TagReadOutcomes] :
             /\ Put(w, Msg("done", FinalGroups(groups, tg)))
             /\ TagCalled(w, GroupCalls(files[w], tg))
    /\ wpc' = [wpc EXCEPT ![w] = "end"]
    /\ UNCHANGED <<tree, wmethod, files, file_infos, processed, hashed>>
    /\ UNCHANGED gvars

\* lines 82-110 and 115: grouping, tags of the grouped paths, ("done", groups)
WorkerGroup(w) ==
    /\ Alive
    /\ wpc[w] = "finger"
    /\ processed[w] = Len(files[w])
    /\ \E groups \in {Grouping(wmethod[w], file_infos[w])} :
         \E grouped \in {Flatten(groups)} :
           \E tg \in [Range(grouped) -> TagReadOutcomes] :
               /\ Put(w, Msg("done", FinalGroups(groups, tg)))
               /\ TagCalled(w, GroupCalls(grouped, tg))
    /\ wpc' = [wpc EXCEPT ![w] = "end"]
    /\ UNCHANGED <<tree, wmethod, files, file_infos, processed, hashed>>
    /\ UNCHANGED gvars

\* lines 116-117: the except clause puts ("error", str(e))
WorkerError(w) ==
    /\ Alive
    /\ wpc[w] = "raise"
    /\ Put(w, Msg("error", "e"))
    /\ wpc' = [wpc EXCEPT ![w] = "end"]
    /\ UNCHANGED <<tree, wmethod, files, file_infos, processed,
                   hashed, tagcalls>>
    /\ UNCHANGED gvars

\* a call into the file system never returns (a FIFO, a stalled mount): the
\* worker stays in os.walk (line 55), in the call on the next file (lines
\* 66, 70, 74) or in the read_tags of a grouped path (line 108), after the
\* read_tags of the grouped paths before it have returned
WorkerHang(w) ==
    /\ Alive
    /\ \/ /\ wpc[w] = "enum"
          /\ UNCHANGED <<hashed, tagcalls>>
       \/ /\ wpc[w] = "finger"
          /\ processed[w] < Len(files[w])
          /\ Hashed(w, IF wmethod[w] = "hash"
                       THEN {files[w][processed[w] + 1]} ELSE {})
          /\ UNCHANGED tagcalls
       \/ /\ wpc[w] = "finger"
          /\ processed[w] = Len(files[w])
          /\ \E grouped \in {Flatten(Grouping(wmethod[w], file_infos[w]))} :
               \E n \in 0..(Len(grouped) - 1) :
                 \E tg \in [Range(SubSeq(grouped, 1, n)) -> TagReadOutcomes] :
                    TagCalled(w, GroupCalls(SubSeq(grouped, 1, n), tg))
          /\ UNCHANGED hashed
    /\ wpc' = [wpc EXCEPT ![w] = "hung"]
    /\ UNCHANGED <<tree, wmethod, files, file_infos, processed, queue, sent>>
    /\ UNCHANGED gvars

\* ------------------------------------------------- one scan, no consumer
\* The state right after the -START- handler launched the first worker on a
\* tree of up to MaxFiles files; the main loop is not scheduled.
InitScan ==
    /\ tree \in {1..n : n \in 0..MaxFiles}
    /\ \E m \in Methods :
        /\ wmethod = [w \in Scans |-> IF w = 1 THEN m ELSE "hash"]
        /\ values = [folder |-> "music", method |-> m]
    /\ wpc = [w \in Scans |-> IF w = 1 THEN "enum" ELSE "idle"]
    /\ files = [w \in Scans |-> <<>>]
    /\ file_infos = [w \in Scans |-> <<>>]
    /\ processed = [w \in Scans |-> 0]
    /\ queue = [q \in 0..MaxScans |-> <<>>]
    /\ sent = [w \in Scans |-> <<>>]
    /\ hashed = [w \in Scans |-> {}]
    /\ tagcalls = [w \in Scans |-> <<>>]
    /\ cpc = "read"
    /\ event = "-START-"
    /\ msg_q = 1
    /\ nthreads = 1
    /\ total_files = 0
    /\ groups_cache = <<>>
    /\ startDisabled = TRUE
    /\ stopDisabled = FALSE
    /\ preserve_map = EmptyMap
    /\ exported = <<>>
    /\ movelog = NoMove

NextScan ==
    \/ WorkerEnumerate(1)
    \/ WorkerEnumRaise(1)
    \/ WorkerFingerprint(1)
    \/ WorkerGroup(1)
    \/ WorkerError(1)
    \/ WorkerHang(1)

SpecScan == InitScan /\ [][NextScan]_vars

\* ------------------------------------------------ vocabulary of the claims
Last(s) == s[Len(s)]
\* worker w is in a call into the file system that never returns
Hung(w) == wpc[w] = "hung"
Terminal(m) == m.typ \in {"done", "error"}
\* the enumeration of line 55 has returned for worker w: Total was put
Enumerated(w) == sent[w] # <<>> /\ sent[w][1].typ = "total"
\* the scan of worker w has returned and its last message is ("done", groups)
EndedDone(w) == wpc[w] = "end" /\ sent[w] # <<>> /\ Last(sent[w]).typ = "done"
\* the lists of paths of the groups carried by the done message of w
DoneFiles(w) ==
    LET G == Last(sent[w]).val IN [n \in 1..Len(G) |-> G[n].files]
\* the groups of w, each as a set of paths
DoneSets(w) == {Range(DoneFiles(w)[n]) : n \in 1..Len(DoneFiles(w))}
\* the paths of the scan of w whose key is None
Unavailable(w) ==
    {file_infos[w][k].path :
        k \in {j \in 1..Len(file_infos[w]) :
                  Key(wmethod[w], file_infos[w][j]) = None}}
\* the hash-bucket reference: the paths of each key, for keys held twice
Buckets(method, infos) ==
    LET keyed(k) == {infos[j].path : j \in {i \in 1..Len(infos) :
                                                Key(method, infos[i]) = k}}
    IN  {B \in {keyed(Key(method, infos[j])) : j \in 1..Len(infos)} :
            Cardinality(B) >= 2}

\* C1: every group of a done message has at least 2 paths, no path is in two
\* groups or twice in one group, and every path is an enumerated file
C1_GroupsWellFormed ==
    \A w \in Scans : EndedDone(w) =>
        LET F == DoneFiles(w) IN
        /\ \A n \in 1..Len(F) :
            /\ Len(F[n]) >= 2
            /\ \A a, b \in 1..Len(F[n]) : a # b => F[n][a] # F[n][b]
            /\ Range(F[n]) \subseteq Range(files[w])
        /\ \A n, m \in 1..Len(F) : n # m => Range(F[n]) \cap Range(F[m]) = {}

\* a scan of 4 files returned two groups
C1_Witness ==
    \E w \in Scans : EndedDone(w) /\ Len(files[w]) = 4 /\ Len(DoneFiles(w)) = 2

\* C2 as claimed: the messages of every scan have the form
\* Total, Progress*, (Done | Error), the terminal message put exactly when
\* the worker ends
C2_TotalFirstAlways ==
    \A w \in Scans :
        LET s == sent[w] IN
        /\ s # <<>> => s[1].typ = "total"
        /\ \A k \in 2..Len(s) : s[k].typ \in {"progress", "done", "error"}
        /\ \A k \in 1..Len(s) : Terminal(s[k]) => k = Len(s)
        /\ wpc[w] = "end" <=> (s # <<>> /\ Terminal(Last(s)))

\* C2 amended: the messages of a scan are either Error alone or
\* Total, Progress*, (Done | Error): at most one total, which comes first,
\* every progress and every done after it, one terminal message, put last
C2_MessageOrder ==
    \A w \in Scans :
        LET s == sent[w] IN
        /\ \A k \in 1..Len(s) : s[k].typ = "total" => k = 1
        /\ \A k \in 1..Len(s) :
            s[k].typ \in {"progress", "done"} => k > 1 /\ s[1].typ = "total"
        /\ \A k \in 1..Len(s) : Terminal(s[k]) => k = Len(s)
        /\ wpc[w] = "end" <=> (s # <<>> /\ Terminal(Last(s)))

\* one scan ended with Total, Progress, Progress, Done
C2_Witness ==
    \E w \in Scans : EndedDone(w) /\ Len(sent[w]) = 4
                     /\ sent[w][1].typ = "total"

\* C3: a scan of n files that ends with Done has put Total(n), then
\* Progress(1) .. Progress(n), then Done, whatever files failed
C3_ProgressCounts ==
    \A w \in Scans : EndedDone(w) =>
        LET s == sent[w]
            n == Len(files[w])
        IN  /\ Len(s) = n + 2
            /\ s[1].typ = "total" /\ s[1].val = n
            /\ \A k \in 1..n : s[k + 1].typ = "progress" /\ s[k + 1].val = k

\* a scan of 3 files, one of which could not be read, ended with Done
C3_Witness ==
    \E w \in Scans : EndedDone(w) /\ Len(files[w]) = 3
                     /\ Cardinality(Unavailable(w)) = 1

\* C4: when every key was computed, the groups are exactly the sets of paths
\* that share a key held by at least 2 files, each such set once
C4_SameAsBuckets ==
    \A w \in Scans : (EndedDone(w) /\ Unavailable(w) = {}) =>
        /\ DoneSets(w) = Buckets(wmethod[w], file_infos[w])
        /\ Len(DoneFiles(w)) = Cardinality(Buckets(wmethod[w], file_infos[w]))

\* four files with keys a, b, a, b in enumeration order gave two groups
C4_Witness ==
    \E w \in Scans :
        /\ EndedDone(w) /\ Unavailable(w) = {} /\ Len(files[w]) = 4
        /\ Key(wmethod[w], file_infos[w][1]) = Key(wmethod[w], file_infos[w][3])
        /\ Key(wmethod[w], file_infos[w][2]) = Key(wmethod[w], file_infos[w][4])
        /\ Key(wmethod[w], file_infos[w][1]) # Key(wmethod[w], file_infos[w][2])
        /\ Len(DoneFiles(w)) = 2

\* C5 as claimed: a file whose key could not be computed is in no group
C5_UnavailableExcluded ==
    \A w \in Scans : EndedDone(w) =>
        Unavailable(w) \cap UNION DoneSets(w) = {}

\* C6: once Total is put no failure on a file ends the scan with Error: the
\* worker never enters the except clause, it ends with Done, and Total
\* carries the number of files enumerated
C6_PerFileFailuresAbsorbed ==
    \A w \in Scans :
        Enumerated(w) =>
            /\ sent[w][1].val = Len(files[w])
            /\ wpc[w] # "raise"
            /\ \A k \in 1..Len(sent[w]) : sent[w][k].typ # "error"
            /\ wpc[w] = "end" => Last(sent[w]).typ = "done"

\* a scan where two files failed and a grouped path had no readable tags
\* ended with Done
C6_Witness ==
    \E w \in Scans :
        /\ EndedDone(w) /\ Cardinality(Unavailable(w)) = 2
        /\ Len(files[w]) = 3
        /\ \E n \in 1..Len(Last(sent[w]).val) :
            Last(sent[w]).val[n].tags[1] = EmptyDict

\* C7 as claimed: the scan of a tree that holds no .mp3 file puts Total(0)
\* and then Done([]), and nothing else
C7_EmptyTreeAlways ==
    \A w \in Scans :
        LET s == sent[w] IN
        tree = {} =>
            /\ Len(s) <= 2
            /\ Len(s) >= 1 => s[1].typ = "total" /\ s[1].val = 0
            /\ Len(s) = 2 => s[2].typ = "done" /\ s[2].val = <<>>
            /\ wpc[w] = "end" => Len(s) = 2

\* C7 amended: the enumeration of a tree that holds no .mp3 file returns no
\* file when it returns; a scan whose enumeration returns no file, in an
\* empty tree or in one whose folders cannot be listed, puts Total(0) as
\* soon as the enumeration has returned and then Done([]), with nothing in
\* between and nothing after; a scan whose enumeration raises puts nothing
\* until it ends, and ends with Error alone
C7_EmptyTree ==
    \A w \in Scans :
        /\ tree = {} => files[w] = <<>>
        /\ files[w] = <<>> =>
            /\ wpc[w] \in {"enum", "raise", "hung"} => sent[w] = <<>>
            /\ wpc[w] = "finger" => sent[w] = <<Msg("total", 0)>>
            /\ wpc[w] = "end" =>
                \/ Len(sent[w]) = 1 /\ sent[w][1].typ = "error"
                \/ sent[w] = <<Msg("total", 0), Msg("done", <<>>)>>

\* the scan of a tree that holds no .mp3 file has ended
C7_Witness ==
    \E w \in Scans : wpc[w] = "end" /\ files[w] = <<>> /\ tree = {}
                     /\ Len(sent[w]) = 2

\* file_infos in the order of the sorted paths
SortedInfos(infos) ==
    [k \in 1..Len(infos) |->
        CHOOSE i \in Range(infos) :
            Cardinality({j \in Range(infos) : j.path < i.path}) = k - 1]

\* C10: the partition a scan returns is the partition the scan returns when
\* the same files with the same keys are enumerated in sorted order, so two
\* scans of an unchanged tree return the same partition in whatever orders
C10_OrderIndependent ==
    \A w \in Scans : EndedDone(w) =>
        LET G == Grouping(wmethod[w], SortedInfos(file_infos[w]))
        IN  DoneSets(w) = {Range(G[n]) : n \in 1..Len(G)}

\* a scan that enumerated 3 files in descending order, one of them
\* unavailable, returned a group
C10_Witness ==
    \E w \in Scans :
        /\ EndedDone(w) /\ files[w] = <<3, 2, 1>>
        /\ Unavailable(w) # {} /\ DoneSets(w) # {}

\* ------------------------------------------- claims on the calls of a scan
\* the byte sizes the files of w can have: files with the same digest have
\* the same content, hence the same size
ByteSizes == {100, 101}
SizeMaps(w) ==
    {sz \in [Range(files[w]) -> ByteSizes] :
        \A i, j \in 1..Len(file_infos[w]) :
            LET hi == Key("hash", file_infos[w][i])
                hj == Key("hash", file_infos[w][j])
            IN  hi # None /\ hi = hj =>
                    sz[file_infos[w][i].path] = sz[file_infos[w][j].path]}

\* C11 as claimed: under the hash method a file whose byte size no other
\* enumerated file has is never passed to file_hash
C11_SizeUniqueNeverHashed ==
    \A w \in Scans : wmethod[w] = "hash" /\ Enumerated(w) =>
        \A sz \in SizeMaps(w) : \A f \in Range(files[w]) :
            (\A g \in Range(files[w]) \ {f} : sz[g] # sz[f]) =>
                f \notin hashed[w]

\* the paths read_tags was called on at a line by worker w
TagPaths(w, l) == {c.path : c \in {d \in Range(tagcalls[w]) : d.line = l}}
\* the paths of the groups of the done message of w
Grouped(w) == UNION DoneSets(w)

\* C12 as claimed: for every method, read_tags is only called on paths that
\* are in a group of the done message
C12_TagsOnlyForGrouped ==
    \A w \in Scans : EndedDone(w) =>
        \A c \in Range(tagcalls[w]) : c.path \in Grouped(w)

\* C12: under hash and size, read_tags is called only at line 108 and
\* exactly on the paths of the groups of the done message (on some of the
\* paths that line 106 has grouped when one of these calls never returns);
\* under name it is also called at line 70 on every file fingerprinted so
\* far
C12_TagReads ==
    \A w \in Scans :
        /\ TagPaths(w, 70) =
              IF wmethod[w] = "name"
              THEN {files[w][k] : k \in 1..processed[w]} ELSE {}
        /\ EndedDone(w) => TagPaths(w, 108) = Grouped(w)
        /\ (~EndedDone(w) /\ ~Hung(w)) => TagPaths(w, 108) = {}
        /\ Hung(w) =>
              TagPaths(w, 108) \subseteq
                  Range(Flatten(Grouping(wmethod[w], file_infos[w])))
        /\ \A c \in Range(tagcalls[w]) : c.line \in {70, 108}

\* a scan by name of 3 files returned one group of 2: the tags of the
\* singleton were read at line 70 and not at line 108
C12_Witness ==
    \E w \in Scans :
        /\ EndedDone(w) /\ wmethod[w] = "name" /\ Len(files[w]) = 3
        /\ Cardinality(Grouped(w)) = 2
        /\ TagPaths(w, 70) = Range(files[w])
        /\ TagPaths(w, 108) = Grouped(w)

\* C13: in every group of a done message, tags is as long as files and
\* tags[k] is what read_tags returned at line 108 for files[k]; read_tags
\* returns the empty dictionary when MutagenFile raises
C13_TagsParallel ==
    /\ \A o \in MutagenOutcomes : o.raises => read_tags(o) = EmptyDict
    /\ \A w \in Scans : EndedDone(w) =>
        LET G == Last(sent[w]).val IN
        \A n \in 1..Len(G) :
            /\ Len(G[n].tags) = Len(G[n].files)
            /\ \A k \in 1..Len(G[n].files) :
                  {c.ret : c \in {d \in Range(tagcalls[w]) :
                      d.line = 108 /\ d.path = G[n].files[k]}}
                  = {G[n].tags[k]}

\* a done message carries a group of 3 files whose second file has no
\* readable tags, between two files that have a title
C13_Witness ==
    \E w \in Scans : EndedDone(w) /\
        \E n \in 1..Len(Last(sent[w]).val) :
            LET g == Last(sent[w]).val[n] IN
            /\ Len(g.files) = 3
            /\ g.tags[1] # EmptyDict /\ g.tags[2] = EmptyDict
            /\ g.tags[3] # EmptyDict

\* tag dictionaries with and without a title, and with an empty title list
WideDicts == TagDicts \cup {[title |-> <<>>], [title |-> <<"t2", "t3">>],
                            [artist |-> <<"a1">>]}
\* the dictionary d declares a title
HasTitle(d) == "title" \in DOMAIN d /\ d["title"] # <<>>
\* what read_tags returned at line 70 for path p in the scan of w
TagsAt70(w, p) ==
    (CHOOSE c \in Range(tagcalls[w]) : c.line = 70 /\ c.path = p).ret

\* C14: under the name method the key of a file is the first declared title
\* when its tags hold a non-empty title, else its base name without
\* extension; two files without title whose base names differ are in no
\* common group
C14_NameKey ==
    /\ \A d \in WideDicts : \A f \in 1..MaxFiles :
          TitleOf(f, d) = IF HasTitle(d) THEN d["title"][1] ELSE Stem(f)
    /\ \A w \in Scans : wmethod[w] = "name" =>
        /\ \A k \in 1..Len(file_infos[w]) :
              LET p == file_infos[w][k].path
                  d == TagsAt70(w, p)
              IN  Key("name", file_infos[w][k]) =
                    Some(IF HasTitle(d) THEN d["title"][1] ELSE Stem(p))
        /\ EndedDone(w) =>
              \A g \in DoneSets(w) : \A a, b \in g :
                  /\ ~HasTitle(TagsAt70(w, a))
                  /\ ~HasTitle(TagsAt70(w, b))
                  => Stem(a) = Stem(b)

\* a scan by name of 3 files without title returned the group of the two
\* files named b1 and left the file named b2 alone
C14_Witness ==
    \E w \in Scans :
        /\ EndedDone(w) /\ wmethod[w] = "name" /\ Len(files[w]) = 3
        /\ \A p \in Range(files[w]) : ~HasTitle(TagsAt70(w, p))
        /\ DoneSets(w) = {{1, 3}}

\* the position of path p in the enumeration of the scan of w
Pos(w, p) == CHOOSE k \in 1..Len(files[w]) : files[w][k] = p

\* C16: in every group of a done message the paths are in the order of the
\* enumeration, and the groups are in the order of the enumeration of their
\* first paths
C16_EnumerationOrder ==
    \A w \in Scans : EndedDone(w) =>
        LET F == DoneFiles(w) IN
        /\ \A n \in 1..Len(F) : \A a, b \in 1..Len(F[n]) :
              a < b => Pos(w, F[n][a]) < Pos(w, F[n][b])
        /\ \A n, m \in 1..Len(F) :
              n < m => Pos(w, F[n][1]) < Pos(w, F[m][1])

\* the enumeration <<4, 1, 3, 2>> returned the groups <<4, 3>> and <<1, 2>>:
\* neither the groups nor their paths are in the order of the paths
C16_Witness ==
    \E w \in Scans :
        /\ EndedDone(w) /\ files[w] = <<4, 1, 3, 2>>
        /\ DoneFiles(w) = << <<4, 3>>, <<1, 2>> >>

\* ------------------------------------------------------- main loop actions
\* line 160: window.read returns an event and the values of the inputs.  A
\* disabled button yields no event.  At most MaxScans scans are started, on
\* trees of at most MaxGuiFiles files.
\* The record of what the last handler wrote and moved ends here.
ConsumerRead ==
    /\ cpc = "read"
    /\ \/ /\ event' \in {"__TIMEOUT__", "WINDOW_CLOSED", "-EXPORT-", "-MOVE-"}
          /\ UNCHANGED values
       \/ /\ ~stopDisabled
          /\ event' = "-STOP-"
          /\ UNCHANGED values
       \/ /\ ~startDisabled
          /\ nthreads < MaxScans
          /\ Cardinality(tree) <= MaxGuiFiles
          /\ event' = "-START-"
          /\ values' \in [folder : Folders, method : Methods]
    /\ cpc' = "drain"
    /\ exported' = <<>>
    /\ movelog' = NoMove
    /\ UNCHANGED <<msg_q, nthreads, total_files, groups_cache,
                   startDisabled, stopDisabled, preserve_map>>
    /\ UNCHANGED <<tree, wvars>>

\* the worker whose terminal message the main loop takes has returned from
\* find_duplicates: its locals are gone, and so is the record of its calls
Returned(msg) ==
    LET gone(f, blank) == IF msg.typ \in {"done", "error"}
                          THEN [f EXCEPT ![msg_q] = blank] ELSE f
    IN  /\ files' = gone(files, <<>>)
        /\ file_infos' = gone(file_infos, <<>>)
        /\ processed' = gone(processed, 0)
        /\ hashed' = gone(hashed, {})
        /\ tagcalls' = gone(tagcalls, <<>>)

\* ConsumerGet that does not keep the count of a total message
ConsumerGetDropsTotal ==
    /\ cpc = "drain"
    /\ queue[msg_q] # <<>>
    /\ LET msg == Head(queue[msg_q]) IN
        /\ queue' = [queue EXCEPT ![msg_q] = Tail(@)]
        /\ groups_cache' = IF msg.typ = "done" THEN msg.val ELSE groups_cache
        /\ startDisabled' = IF msg.typ \in {"done", "error"} THEN FALSE
                            ELSE startDisabled
        /\ stopDisabled' = IF msg.typ \in {"done", "error"} THEN TRUE
                           ELSE stopDisabled
    /\ UNCHANGED <<cpc, event, values, msg_q, nthreads, preserve_map, exported,
                   movelog, total_files>>
    /\ Returned(Head(queue[msg_q]))
    /\ UNCHANGED <<tree, wpc, wmethod, sent>>

\* ConsumerGet that leaves the buttons as they are on an error message
ConsumerGetErrorKeepsButtons ==
    /\ cpc = "drain"
    /\ queue[msg_q] # <<>>
    /\ LET msg == Head(queue[msg_q]) IN
        /\ queue' = [queue EXCEPT ![msg_q] = Tail(@)]
        /\ total_files' = IF msg.typ = "total" THEN msg.val ELSE total_files
        /\ groups_cache' = IF msg.typ = "done" THEN msg.val ELSE groups_cache
        /\ startDisabled' = IF msg.typ = "done" THEN FALSE ELSE startDisabled
        /\ stopDisabled' = IF msg.typ = "done" THEN TRUE ELSE stopDisabled
    /\ UNCHANGED <<cpc, event, values, msg_q, nthreads, preserve_map, exported,
                   movelog>>
    /\ Returned(Head(queue[msg_q]))
    /\ UNCHANGED <<tree, wpc, wmethod, sent>>

\* lines 165-189: msg_q.get_nowait() returns a message, which is handled
ConsumerGet ==
    /\ cpc = "drain"
    /\ queue[msg_q] # <<>>
    /\ LET msg == Head(queue[msg_q]) IN
        /\ queue' = [queue EXCEPT ![msg_q] = Tail(@)]
        /\ total_files' = IF msg.typ = "total" THEN msg.val ELSE total_files
        /\ groups_cache' = IF msg.typ = "done" THEN msg.val ELSE groups_cache
        /\ startDisabled' = IF msg.typ \in {"done", "error"} THEN FALSE
                            ELSE startDisabled
        /\ stopDisabled' = IF msg.typ \in {"done", "error"} THEN TRUE
                           ELSE stopDisabled
    /\ UNCHANGED <<cpc, event, values, msg_q, nthreads, preserve_map, exported,
                   movelog>>
    /\ Returned(Head(queue[msg_q]))
    /\ UNCHANGED <<tree, wpc, wmethod, sent>>

\* get_nowait raised queue.Empty: the event is handled (lines 194-225)
QueueEmpty == cpc = "drain" /\ queue[msg_q] = <<>>

\* lines 194-195
HandleClosed ==
    /\ QueueEmpty
    /\ event = "WINDOW_CLOSED"
    /\ cpc' = "closed"
    /\ UNCHANGED <<event, values, msg_q, nthreads, total_files, groups_cache,
                   startDisabled, stopDisabled, preserve_map, exported,
                   movelog>>
    /\ UNCHANGED <<tree, wvars>>

\* the timeout event matches no handler
HandleTimeout ==
    /\ QueueEmpty
    /\ event = "__TIMEOUT__"
    /\ cpc' = "read"
    /\ UNCHANGED <<event, values, msg_q, nthreads, total_files, groups_cache,
                   startDisabled, stopDisabled, preserve_map, exported,
                   movelog>>
    /\ UNCHANGED <<tree, wvars>>

\* StartRejected with the resets of lines 219-221 made before the checks
StartRejectedResets ==
    /\ cpc = "drain" /\ queue[msg_q] = <<>>
    /\ event = "-START-"
    /\ values.folder = "" \/ ~IsDir(values.folder)
    /\ total_files' = 0
    /\ groups_cache' = <<>>
    /\ cpc' = "read"
    /\ UNCHANGED <<event, values, msg_q, nthreads, startDisabled, stopDisabled,
                   preserve_map, exported, movelog>>
    /\ UNCHANGED <<tree, wvars>>

\* lines 207-212: the popup, then continue.  One radio button of the METHOD
\* group is always selected, so the method is never missing.
StartRejected ==
    /\ QueueEmpty
    /\ event = "-START-"
    /\ values.folder = "" \/ ~IsDir(values.folder)
    /\ cpc' = "read"
    /\ UNCHANGED <<event, values, msg_q, nthreads, total_files, groups_cache,
                   startDisabled, stopDisabled, preserve_map, exported,
                   movelog>>
    /\ UNCHANGED <<tree, wvars>>

\* StartButtons that leaves -START- enabled
StartButtonsLeftEnabled == [start |-> FALSE, stop |-> FALSE]

\* the update of the two buttons at lines 217-218
StartButtons == [start |-> TRUE, stop |-> FALSE]

\* what is left of the workers once a new thread object replaces the old
\* one: a worker that has returned is forgotten with its locals and history
Forget(f, w, fresh, blank) ==
    [v \in Scans |-> IF v = w THEN fresh
                     ELSE IF wpc[v] = "end" THEN blank ELSE f[v]]

\* lines 213-215: a new queue and a new worker thread, which runs from here
\* on while the main thread is still inside the handler
StartScan ==
    /\ QueueEmpty
    /\ event = "-START-"
    /\ ~(values.folder = "" \/ ~IsDir(values.folder))
    /\ LET w == nthreads + 1 IN
        /\ msg_q' = w
        /\ nthreads' = w
        /\ wpc' = Forget(wpc, w, "enum", "gone")
        /\ wmethod' = Forget(wmethod, w, values.method, "hash")
        /\ files' = Forget(files, w, <<>>, <<>>)
        /\ file_infos' = Forget(file_infos, w, <<>>, <<>>)
        /\ processed' = Forget(processed, w, 0, 0)
        /\ sent' = Forget(sent, w, <<>>, <<>>)
        /\ hashed' = Forget(hashed, w, {}, {})
        /\ tagcalls' = Forget(tagcalls, w, <<>>, <<>>)
    /\ cpc' = "starting"
    /\ UNCHANGED <<event, values, total_files, groups_cache, startDisabled,
                   stopDisabled, preserve_map, exported, movelog>>
    /\ UNCHANGED <<tree, queue>>

\* StartReset without groups_cache = [] of line 221
StartResetKeepsCache ==
    /\ cpc = "starting"
    /\ startDisabled' = StartButtons.start
    /\ stopDisabled' = StartButtons.stop
    /\ total_files' = 0
    /\ cpc' = "read"
    /\ UNCHANGED <<event, values, msg_q, nthreads, preserve_map, exported,
                   movelog, groups_cache>>
    /\ UNCHANGED <<tree, wvars>>

\* lines 216-221, the rest of the handler: the status text, the buttons and
\* the resets of total_files, of the table and of groups_cache
StartReset ==
    /\ cpc = "starting"
    /\ startDisabled' = StartButtons.start
    /\ stopDisabled' = StartButtons.stop
    /\ total_files' = 0
    /\ groups_cache' = <<>>
    /\ cpc' = "read"
    /\ UNCHANGED <<event, values, msg_q, nthreads, preserve_map, exported,
                   movelog>>
    /\ UNCHANGED <<tree, wvars>>

\* lines 223-225: a popup and a status text
HandleStop ==
    /\ QueueEmpty
    /\ event = "-STOP-"
    /\ cpc' = "read"
    /\ UNCHANGED <<event, values, msg_q, nthreads, total_files, groups_cache,
                   startDisabled, stopDisabled, preserve_map, exported,
                   movelog>>
    /\ UNCHANGED <<tree, wvars>>

RECURSIVE Rows(_, _)
\* lines 240-247: one row per (p, t) of zip(g["files"], g["tags"]), for the
\* groups from the n-th on; a row is named by its path
Rows(groups, n) ==
    IF n > Len(groups) THEN <<>>
    ELSE LET g == groups[n]
             len == IF Len(g.files) < Len(g.tags) THEN Len(g.files)
                    ELSE Len(g.tags)
         IN  SubSeq(g.files, 1, len) \o Rows(groups, n + 1)

\* lines 227-250: nothing to export, or the file dialog is cancelled, or the
\* rows are written, or open or a writerow raises, with the rows before it
\* in the file, and the error is shown
HandleExport ==
    /\ QueueEmpty
    /\ event = "-EXPORT-"
    /\ IF groups_cache = <<>>
       THEN exported' = <<>>
       ELSE \E rows \in {Rows(groups_cache, 1)} :
               \E out \in {"cancelled", "written", "raised"} :
                  \E n \in 0..Len(rows) :
                     exported' = CASE out = "cancelled" -> <<>>
                                   [] out = "written" -> rows
                                   [] out = "raised" -> SubSeq(rows, 1, n)
    /\ cpc' = "read"
    /\ UNCHANGED <<event, values, msg_q, nthreads, total_files, groups_cache,
                   startDisabled, stopDisabled, preserve_map, movelog>>
    /\ UNCHANGED <<tree, wvars>>

\* sorted(set(os.path.dirname(p) for p in g["files"])), as a set
FoldersOf(g) == {Dirname(g[k]) : k \in 1..Len(g)}
\* the first folder of the sorted list that is a key of the map
FirstKnown(folders, pm) ==
    CHOOSE d \in folders \cap DOMAIN pm :
        \A e \in folders \cap DOMAIN pm : d <= e

\* lines 263-267: the folder remembered for the group, or None
Remembered(folders, pm) ==
    IF folders \cap DOMAIN pm = {} THEN None
    ELSE Some(pm[FirstKnown(folders, pm)])

\* lines 268-295: what the dialog can end with: it is not shown, or it is
\* cancelled or closed, or a folder is picked and remembered or not
Dialogs(folders, pm) ==
    IF Remembered(folders, pm) = None /\ Cardinality(folders) > 1
    THEN {[shown |-> TRUE, pick |-> None, remember |-> FALSE]} \cup
         {[shown |-> TRUE, pick |-> Some(d), remember |-> r] :
             d \in folders, r \in BOOLEAN}
    ELSE {[shown |-> FALSE, pick |-> None, remember |-> FALSE]}

\* preserve_folder at line 296
PreserveFolder(folders, pm, dlg) ==
    IF dlg.shown THEN dlg.pick ELSE Remembered(folders, pm)

\* lines 291-293: for f in folders: preserve_map[f] = preserve_folder
Remember(folders, pm, dlg) ==
    IF dlg.shown /\ dlg.remember
    THEN [d \in DOMAIN pm \cup folders |->
             IF d \in folders THEN dlg.pick[1] ELSE pm[d]]
    ELSE pm

\* line 296: the files of the group outside the preserved folder
ToMove(g, preserve) == SelectSeq(g, LAMBDA p : Some(Dirname(p)) # preserve)

RECURSIVE FreePaths(_, _, _)
\* lines 299-304: the names dst_path can end as, from the c-th candidate on
\* (dst_path itself is candidate 0): a name nothing in dest has, or a name
\* of a file of the tree for which os.path.exists answers False (a dangling
\* symbolic link, a failing stat); what a folder of the tree holds are the
\* files of the tree
FreePaths(dst_path, c, t) ==
    LET q == IF c = 0 THEN dst_path ELSE Numbered(dst_path, c)
    IN  IF q \notin t THEN {q} ELSE {q} \cup FreePaths(dst_path, c + 1, t)

\* the names line 305 can be given for p: 0 stands for any name in a folder
\* outside the tree
Targets(dest, p, t) ==
    IF dest = 0 THEN {0} ELSE FreePaths(Join(dest, p), 0, t)

\* line 305: the tree once shutil.move has moved p to dst_path, replacing
\* what was there
Moved(t, p, dst_path) ==
    IF dst_path = 0 THEN t \ {p} ELSE (t \ {p}) \cup {dst_path}

\* line 305: the tree when shutil.move has copied p to dst_path and raises
\* before or while it removes p
Copied(t, dst_path) == IF dst_path = 0 THEN t ELSE t \cup {dst_path}

RECURSIVE MoveFiles(_, _, _, _)
\* lines 297-305: the files are moved one by one to names that are free in
\* dest, in every way this can end; shutil.move raises on a path that is no
\* longer there, and can raise on any other (name too long, no permission,
\* disk full), with or without a copy left at the target
MoveFiles(to_move, k, r, dest) ==
    IF k > Len(to_move) THEN {r}
    ELSE IF to_move[k] \notin r.tree THEN {[r EXCEPT !.raised = TRUE]}
    ELSE UNION {
           {[r EXCEPT !.raised = TRUE],
            [r EXCEPT !.raised = TRUE, !.tree = Copied(@, d)]} \cup
           MoveFiles(to_move, k + 1,
                     [r EXCEPT !.tree = Moved(@, to_move[k], d),
                               !.moved = @ \cup {to_move[k]}],
                     dest)
           : d \in Targets(dest, to_move[k], r.tree)}

RECURSIVE MoveGroups(_, _, _, _)
\* lines 261-305: for g in groups_cache, from the n-th group on, in every
\* way the dialogs and the moves can end; st holds the map, the tree and the
\* log so far
MoveGroups(groups, n, st, dest) ==
    IF n > Len(groups) THEN {[st EXCEPT !.res = "done"]}
    ELSE LET g == groups[n].files
             folders == FoldersOf(g)
         IN  UNION {
               LET preserve == PreserveFolder(folders, st.pm, dlg)
               IN  UNION {
                     LET nst == [pm |-> Remember(folders, st.pm, dlg),
                                 tree |-> r.tree,
                                 res |-> "error",
                                 log |-> Append(st.log,
                                           [files |-> g,
                                            preserve |-> preserve,
                                            moved |-> r.moved])]
                     IN  IF r.raised THEN {nst}
                         ELSE MoveGroups(groups, n + 1, nst, dest)
                     : r \in MoveFiles(ToMove(g, preserve), 1,
                                       [tree |-> st.tree, moved |-> {},
                                        raised |-> FALSE], dest)}
               : dlg \in Dialogs(folders, st.pm)}

\* lines 252-309: nothing to move, or the folder dialog is cancelled, or
\* os.makedirs raises, or the groups are moved to the folder the user gave;
\* the copies failed moves leave are followed up to a tree of MaxTree files
HandleMove ==
    /\ QueueEmpty
    /\ event = "-MOVE-"
    /\ IF groups_cache = <<>>
       THEN UNCHANGED <<tree, preserve_map, movelog>>
       ELSE \/ UNCHANGED <<tree, preserve_map, movelog>>
            \/ /\ movelog' = [res |-> "error", groups |-> <<>>]
               /\ UNCHANGED <<tree, preserve_map>>
            \/ \E dest \in Dests :
                 \E st \in MoveGroups(groups_cache, 1,
                            [pm |-> preserve_map, tree |-> tree,
                             res |-> "error", log |-> <<>>], dest) :
                   /\ Cardinality(st.tree) <= MaxTree
                   /\ tree' = st.tree
                   /\ preserve_map' = st.pm
                   /\ movelog' = [res |-> st.res, groups |-> st.log]
    /\ cpc' = "read"
    /\ UNCHANGED <<event, values, msg_q, nthreads, total_files, groups_cache,
                   startDisabled, stopDisabled, exported>>
    /\ UNCHANGED wvars

\* line 311 and the end of the script: the interpreter exits, which ends the
\* daemon thread of the worker wherever it is
ProcessExit ==
    /\ cpc = "closed"
    /\ cpc' = "exited"
    /\ UNCHANGED <<event, values, msg_q, nthreads, total_files, groups_cache,
                   startDisabled, stopDisabled, preserve_map, exported,
                   movelog>>
    /\ UNCHANGED <<tree, wvars>>

\* --------------------------------------------------------- the whole program
\* lines 145-151: the window is built, nothing is running
Init ==
    /\ tree \in {1..n : n \in 0..MaxGuiFiles}
    /\ wpc = [w \in Scans |-> "idle"]
    /\ wmethod = [w \in Scans |-> "hash"]
    /\ files = [w \in Scans |-> <<>>]
    /\ file_infos = [w \in Scans |-> <<>>]
    /\ processed = [w \in Scans |-> 0]
    /\ queue = [q \in 0..MaxScans |-> <<>>]
    /\ sent = [w \in Scans |-> <<>>]
    /\ hashed = [w \in Scans |-> {}]
    /\ tagcalls = [w \in Scans |-> <<>>]
    /\ cpc = "read"
    /\ event = "__TIMEOUT__"
    /\ values = [folder |-> "", method |-> "hash"]
    /\ msg_q = 0
    /\ nthreads = 0
    /\ total_files = 0
    /\ groups_cache = <<>>
    /\ startDisabled = FALSE
    /\ stopDisabled = TRUE
    /\ preserve_map = EmptyMap
    /\ exported = <<>>
    /\ movelog = NoMove

\* the steps of the thread of worker w
Worker(w) ==
    \/ WorkerEnumerate(w)
    \/ WorkerEnumRaise(w)
    \/ WorkerFingerprint(w)
    \/ WorkerGroup(w)
    \/ WorkerError(w)
    \/ WorkerHang(w)

Next ==
    \/ ConsumerRead
    \/ ConsumerGet
    \/ HandleClosed
    \/ HandleTimeout
    \/ StartRejected
    \/ StartScan
    \/ StartReset
    \/ HandleStop
    \/ HandleExport
    \/ HandleMove
    \/ ProcessExit
    \/ \E w \in Scans : Worker(w)

Spec == Init /\ [][Next]_vars

\* the thread of each worker is scheduled as long as the process runs;
\* nothing is assumed of the main loop, nor of the file system: a call that
\* never returns (WorkerHang) leaves the worker without a step to take
SpecWorkerFair == Spec /\ \A w \in Scans : WF_vars(Worker(w))

\* the steps of the main loop (lines 159-309)
MainLoop ==
    \/ ConsumerRead
    \/ ConsumerGet
    \/ HandleClosed
    \/ HandleTimeout
    \/ StartRejected
    \/ StartScan
    \/ StartReset
    \/ HandleStop
    \/ HandleExport
    \/ HandleMove

\* the workers are scheduled, window.read returns after its timeout at the
\* latest and the user answers every dialog: the main loop keeps polling
SpecFair == SpecWorkerFair /\ WF_vars(MainLoop)

\* ------------------------------------------------- claims on the main loop
\* worker w has been launched and has not put its terminal message
Running(w) == wpc[w] \in {"enum", "finger", "raise", "hung"}
\* the terminal message of worker w is still in its queue
TerminalPending(w) ==
    \E k \in 1..Len(queue[w]) : Terminal(queue[w][k])

\* C8: from the moment window.read returns -START- with a folder that is
\* empty or not a directory until the handler has returned, no thread is
\* created, no message is put, and msg_q, total_files, groups_cache and the
\* two buttons keep their values
C8_RejectedStartChangesNothing ==
    [][(cpc = "drain" /\ event = "-START-" /\ ~IsDir(values.folder)) =>
          UNCHANGED <<nthreads, wpc, queue, sent, msg_q, total_files,
                      groups_cache, startDisabled, stopDisabled>>]_vars

\* a Start on a folder that is not a directory was handled after a scan that
\* returned a group: the cache, the total and the buttons are as they were
C8_Witness ==
    /\ cpc = "read" /\ event = "-START-" /\ ~IsDir(values.folder)
    /\ nthreads = 1 /\ groups_cache # <<>> /\ total_files = 2
    /\ ~startDisabled /\ stopDisabled

\* C9 as claimed: at most one worker has not put its terminal message, it
\* writes to the queue msg_q names, and -START- is disabled from the moment
\* the worker is launched until the main loop has taken its terminal message
C9_StartDisabledFromLaunch ==
    /\ Cardinality({w \in Scans : Running(w)}) <= 1
    /\ \A w \in Scans :
        (Running(w) \/ TerminalPending(w)) =>
            /\ msg_q = w
            /\ startDisabled

\* C9 amended: at most one worker has not put its terminal message, and it writes
\* to the queue msg_q names; -START- is disabled by the handler that
\* launches a worker, which reads no event between the launch (line 215) and
\* the update of the button (line 217), until the main loop has taken the
\* terminal message of that worker
C9_OneScanAtATime ==
    /\ Cardinality({w \in Scans : Running(w)}) <= 1
    /\ \A w \in Scans :
        (Running(w) \/ TerminalPending(w)) =>
            /\ msg_q = w
            /\ startDisabled \/ cpc = "starting"

\* a second worker runs after the terminal message of the first was taken
C9_Witness ==
    /\ nthreads = 2 /\ Running(2) /\ wpc[1] = "gone"
    /\ queue[1] = <<>> /\ startDisabled

\* the main loop is about to handle a progress message
AtProgress ==
    /\ cpc = "drain" /\ queue[msg_q] # <<>>
    /\ Head(queue[msg_q]).typ = "progress"

\* C17: when the main loop handles ("progress", p), total_files is the count
\* of the total message of the scan that put it, which is the scan started
\* last, and p <= total_files; the queues other than msg_q are empty and
\* their workers put nothing more
C17_ProgressAgainstOwnTotal ==
    /\ AtProgress =>
        /\ msg_q = nthreads /\ msg_q \in Scans
        /\ Enumerated(msg_q)
        /\ total_files = sent[msg_q][1].val
        /\ total_files = Len(files[msg_q])
        /\ Head(queue[msg_q]).val <= total_files
        /\ Head(queue[msg_q]).val >= 1
    /\ \A q \in 0..MaxScans : q # msg_q =>
        /\ queue[q] = <<>>
        /\ q \in Scans => ~Running(q)

\* the second scan runs on the one file a Move has left of the two files of
\* the first scan, and the main loop is about to handle its progress message
C17_Witness ==
    /\ AtProgress /\ msg_q = 2 /\ Head(queue[msg_q]).val = 1
    /\ total_files = 1 /\ Cardinality(tree) = 1

\* the done message of the scan started last has been taken by the main loop
DoneTaken ==
    /\ msg_q \in Scans /\ EndedDone(msg_q)
    /\ ~TerminalPending(msg_q)

\* C18: groups_cache is empty from the moment the handler of a successful
\* Start has returned until the main loop has taken the done message of that
\* scan, and stays empty when the scan ends with error; what is in
\* groups_cache, and what Export writes and Move moves, is of the done
\* message of the scan started last
C18_CacheOfLastScan ==
    /\ (~DoneTaken /\ cpc # "starting") => groups_cache = <<>>
    /\ DoneTaken => groups_cache = Last(sent[msg_q]).val
    /\ ~DoneTaken => exported = <<>> /\ movelog = NoMove
    /\ DoneTaken =>
        /\ Range(exported) \subseteq Grouped(msg_q)
        /\ \A n \in 1..Len(movelog.groups) :
              /\ movelog.groups[n].files = DoneFiles(msg_q)[n]
              /\ movelog.groups[n].moved \subseteq Grouped(msg_q)

\* a second scan runs after the group of the first scan was moved, and the
\* Move asked for during the second scan has moved nothing
C18_Witness ==
    /\ msg_q = 2 /\ Running(2) /\ Cardinality(tree) = 1
    /\ cpc = "read" /\ event = "-MOVE-"
    /\ groups_cache = <<>> /\ movelog = NoMove

\* C19 as claimed: after a Move that went through every group of
\* groups_cache, each group has a file that was not moved and is where it
\* was, and the files moved are outside the folder preserved for their group
C19_OneMemberKept ==
    movelog.res = "done" =>
        \A n \in 1..Len(movelog.groups) :
            LET e == movelog.groups[n] IN
            /\ (Range(e.files) \ e.moved) \cap tree # {}
            /\ \A p \in e.moved : Some(Dirname(p)) # e.preserve

\* worker w has put its terminal message
Ended(w) == wpc[w] \in {"end", "gone"}

\* C15 as claimed: with the workers scheduled, whatever the main loop does,
\* every scan that was started puts its terminal message
C15_EveryScanTerminates ==
    \A w \in Scans : Running(w) ~> Ended(w)

\* C15: as long as the process runs a worker that has not put its terminal
\* message and is not in a call that never returns can take a step, whatever
\* the main loop has read; with the workers scheduled, again and again no
\* worker is short of its terminal message, unless the process has exited or
\* a call of the worker never returns; the handler of -STOP- changes neither
\* the workers, the queues, msg_q, groups_cache nor total_files
C15_WorkerNeverBlocked ==
    /\ [](\A w \in Scans :
            Running(w) /\ ~Hung(w) /\ cpc # "exited" => ENABLED Worker(w))
    /\ []<>(cpc = "exited" \/ \A w \in Scans : ~Running(w) \/ Hung(w))
    /\ [][(event = "-STOP-" /\ cpc = "drain" /\ cpc' = "read") =>
            UNCHANGED <<wvars, msg_q, groups_cache, total_files, tree>>]_vars

\* a worker has put its 4 messages after the main loop handled -STOP-, and
\* none of them has been read
C15_Witness ==
    /\ event = "-STOP-" /\ cpc = "read"
    /\ wpc[1] = "end" /\ Len(queue[1]) = 4 /\ queue[1] = sent[1]

\* the scan started last has not ended or its terminal message is not taken
ScanInProgress ==
    msg_q \in Scans /\ (Running(msg_q) \/ TerminalPending(msg_q))

\* -START- is disabled and -STOP- enabled exactly from the moment the handler
\* of a successful Start has returned until the main loop has taken the
\* terminal message of the scan
ButtonsFollowScan ==
    /\ cpc # "starting" => (startDisabled <=> ScanInProgress)
    /\ stopDisabled <=> ~startDisabled
\* the main loop is past a successful Start whose buttons are not back
Started == cpc = "starting" \/ startDisabled
\* the buttons are back: -START- enabled and -STOP- disabled
ButtonsBack == cpc # "starting" /\ ~startDisabled /\ stopDisabled

\* C20 as claimed: with the workers scheduled and the main loop polling,
\* every successful Start is followed by the buttons coming back unless the
\* window is closed, and until then -START- is disabled and -STOP- enabled
C20_ButtonsAlwaysComeBack ==
    /\ []ButtonsFollowScan
    /\ Started ~> (ButtonsBack \/ cpc \in {"closed", "exited"})

\* C20: -START- is disabled and -STOP- enabled exactly from the handler of a
\* successful Start until the main loop has taken the terminal message of
\* the scan, and with the main loop polling that moment comes unless the
\* window is closed or a call of the worker never returns
C20_ButtonsComeBack ==
    /\ []ButtonsFollowScan
    /\ Started ~> (ButtonsBack \/ cpc \in {"closed", "exited"}
                   \/ \E w \in Scans : Hung(w))

\* the scan ended with error, the main loop has taken the message and the
\* buttons are back
C20_Witness ==
    /\ msg_q = 1 /\ wpc[1] = "end" /\ Last(sent[1]).typ = "error"
    /\ queue[1] = <<>> /\ ~startDisabled /\ stopDisabled
    /\ cpc \notin {"closed", "exited"}

=============================================================================
